---- MODULE Spec2Model ----
(***************************************************************************)
(* Model of src-tauri/src/commands.rs: the `generate_pdf` command.         *)
(*                                                                         *)
(* Each invocation of the command is a process that walks the statements   *)
(* of the function body in program order.  The filesystem is the only      *)
(* state shared between invocations.  `unwrap()` on a failed value panics: *)
(* the invocation ends without producing a Result.                         *)
(***************************************************************************)
EXTENDS Integers, Sequences, FiniteSets, TLC

\* ---------------------------------------------------------------- bounds
NumInv == 2

Inv == 1..NumInv

\* ------------------------------------------------------------ environment
\* Paths are sequences of one-character strings.
TA == <<"t", "/", "a">>
TB == <<"t", "/", "b">>
RA == <<"r", "/", "a">>
NA == <<"n", "/", "a">>

Paths == {TA, TB, RA, NA}

\* Directories that exist, with their permission; any other directory is missing.
Dirs == {<<"t">>, <<"r">>}

DirWritable(d) == d = <<"t">>

NoFile == [exists |-> FALSE, data |-> <<>>]

File(d) == [exists |-> TRUE, data |-> d]

\* Content a destination may hold before any invocation (longer than a blank document).
OldData == <<"o", "l", "d", "e", "r">>

\* Filler the kernel supplies for a write past the end of a file.
Hole == "\\0"

\* ------------------------------------------------------------ path helpers
RECURSIVE LastSlash(_, _)
LastSlash(p, k) ==
    IF k = 0 THEN 0
    ELSE IF p[k] = "/" THEN k
    ELSE LastSlash(p, k - 1)

Parent(p) == SubSeq(p, 1, LastSlash(p, Len(p)) - 1)

\* Variant: every invocation resolves to one fixed path.
PathNewShared(s) == TA

\* Path::new(&file_path): a borrowed view of the same units.
Path_new(s) == s

\* Units a Rust String can hold; anything else is replaced by U+FFFD when displayed.
ValidUnits == {"t", "r", "n", "a", "b", "/"}

\* Variant: the displayed form loses its last unit.
DisplayDropLast(p) == SubSeq(p, 1, Len(p) - 1)

\* path.display().to_string(): lossy conversion of the path to text.
Display(p) == [k \in 1..Len(p) |-> IF p[k] \in ValidUnits THEN p[k] ELSE "\\uFFFD"]

\* ------------------------------------------------------------ krilla
PageWidth == 300

PageHeight == 600

NoSettings == [some |-> FALSE, w |-> 0, h |-> 0]

\* PageSettings::from_wh(w, h): None unless both dimensions are positive.
from_wh(w, h) == IF w > 0 /\ h > 0 THEN [some |-> TRUE, w |-> w, h |-> h] ELSE NoSettings

NoDocument == [created |-> FALSE, pages |-> <<>>]

NoPage == [open |-> FALSE, w |-> 0, h |-> 0]

PageObject(pg) == "MediaBox 0 0 " \o ToString(pg.w) \o " " \o ToString(pg.h)

\* The serialized form of a document: header, one object per page, trailer.
Serialize(doc) ==
    <<"%PDF">> \o [k \in 1..Len(doc.pages) |-> PageObject(doc.pages[k])] \o <<"%%EOF">>

\* Document::finish(): a Result carrying the serialized bytes.  A document
\* of blank pages has nothing (fonts, images, validation) that can fail.
DocumentFinish(doc) == [ok |-> doc.created, bytes |-> IF doc.created THEN Serialize(doc) ELSE <<>>]

NoPdf == [some |-> FALSE, bytes |-> <<>>]

\* ------------------------------------------------------------ std::fs
\* Variant: open without O_TRUNC.
OpenKeepContents(f, p) ==
    IF Parent(p) \notin Dirs THEN [ok |-> FALSE, err |-> "ENOENT", fs |-> f]
    ELSE IF f[p].exists THEN [ok |-> TRUE, err |-> "", fs |-> f]
    ELSE IF DirWritable(Parent(p)) THEN [ok |-> TRUE, err |-> "", fs |-> [f EXCEPT ![p] = File(<<>>)]]
    ELSE [ok |-> FALSE, err |-> "EACCES", fs |-> f]

\* Variant: a successful open also creates or empties a second file.
OpenTouchSibling(f, p) ==
    IF Parent(p) \notin Dirs THEN [ok |-> FALSE, err |-> "ENOENT", fs |-> f]
    ELSE IF f[p].exists THEN [ok |-> TRUE, err |-> "", fs |-> [f EXCEPT ![p] = File(<<>>), ![TB] = File(<<>>)]]
    ELSE IF DirWritable(Parent(p)) THEN [ok |-> TRUE, err |-> "", fs |-> [f EXCEPT ![p] = File(<<>>), ![TB] = File(<<>>)]]
    ELSE [ok |-> FALSE, err |-> "EACCES", fs |-> f]

\* File::create(path): open(path, O_WRONLY | O_CREAT | O_TRUNC).  An existing
\* file is emptied; a new one needs a writable parent directory.
OpenResult(f, p) ==
    IF Parent(p) \notin Dirs THEN [ok |-> FALSE, err |-> "ENOENT", fs |-> f]
    ELSE IF f[p].exists THEN [ok |-> TRUE, err |-> "", fs |-> [f EXCEPT ![p] = File(<<>>)]]
    ELSE IF DirWritable(Parent(p)) THEN [ok |-> TRUE, err |-> "", fs |-> [f EXCEPT ![p] = File(<<>>)]]
    ELSE [ok |-> FALSE, err |-> "EACCES", fs |-> f]

\* Variant: O_APPEND, every write lands at the end of the file.
WriteAppend(data, off, chunk) == data \o chunk

\* write(fd, chunk) at file offset off: bytes past the end of the file are
\* preceded by a hole, bytes inside the file are replaced.
WriteAt(data, off, chunk) ==
    [k \in 1..(IF off + Len(chunk) > Len(data) THEN off + Len(chunk) ELSE Len(data)) |->
        IF k > off /\ k <= off + Len(chunk) THEN chunk[k - off]
        ELSE IF k <= Len(data) THEN data[k]
        ELSE Hole]

\* ------------------------------------------------------------ results
NoResult == [tag |-> "None", val |-> <<>>]

Ok(v) == [tag |-> "Ok", val |-> v]

\* Variant: the failure is ignored and execution continues.
UnwrapIgnores(r) == FALSE

\* unwrap(): panics on None / Err.
UnwrapPanics(r) == ~r.ok

\* ------------------------------------------------------------ program order
Labels == <<"Document::new", "start_page_with", "Page::finish", "Document::finish",
            "fs::write", "write_all", "eprintln", "return", "done">>

RECURSIVE IndexOf(_, _, _)
IndexOf(s, e, k) == IF k > Len(s) THEN 0 ELSE IF s[k] = e THEN k ELSE IndexOf(s, e, k + 1)

\* Variant: the document is finished before its page.
AfterFinishSwapped(l) ==
    IF l = "start_page_with" THEN "Document::finish"
    ELSE IF l = "Document::finish" THEN "Page::finish"
    ELSE IF l = "Page::finish" THEN "fs::write"
    ELSE Labels[IndexOf(Labels, l, 1) + 1]

\* Variant: the file is written before the document is finished.
AfterWriteFirst(l) ==
    IF l = "Page::finish" THEN "fs::write"
    ELSE IF l = "write_all" THEN "Document::finish"
    ELSE IF l = "Document::finish" THEN "eprintln"
    ELSE Labels[IndexOf(Labels, l, 1) + 1]

\* The statement that follows statement l in the body of generate_pdf.
After(l) == Labels[IndexOf(Labels, l, 1) + 1]

\* ------------------------------------------------------------ state
VARIABLES
    fs,         \* the filesystem: path -> file
    fs0,        \* the filesystem before any invocation (history)
    pc,         \* invocation -> statement it is about to execute
    file_path,  \* invocation -> its argument
    document,   \* invocation -> its Document
    page,       \* invocation -> its Page
    pdf,        \* invocation -> serialized bytes
    offset,     \* invocation -> offset of its file descriptor
    wr,         \* invocation -> outcome of fs::write ("none", "ok", "err")
    events,     \* invocation -> library / filesystem operations performed (history)
    syscalls,   \* invocation -> set of filesystem calls issued (history)
    stderr,     \* lines written to standard error
    raced,      \* paths that two invocations had open for writing at once (history)
    result      \* invocation -> value returned to the caller

vars == <<fs, fs0, pc, file_path, document, page, pdf, offset, wr, events, syscalls, stderr, raced, result>>

InitFs ==
    {f \in [Paths -> {NoFile, File(OldData)}] :
        \A p \in Paths : f[p].exists => Parent(p) \in Dirs}

Init ==
    /\ fs \in InitFs
    /\ fs0 = fs
    /\ pc = [i \in Inv |-> "idle"]
    /\ file_path = [i \in Inv |-> <<>>]
    /\ document = [i \in Inv |-> NoDocument]
    /\ page = [i \in Inv |-> NoPage]
    /\ pdf = [i \in Inv |-> NoPdf]
    /\ offset = [i \in Inv |-> 0]
    /\ wr = [i \in Inv |-> "none"]
    /\ events = [i \in Inv |-> <<>>]
    /\ syscalls = [i \in Inv |-> {}]
    /\ stderr = <<>>
    /\ raced = {}
    /\ result = [i \in Inv |-> NoResult]

Running(i) == pc[i] \notin {"idle", "done", "panicked"}

Ended(i) == pc[i] \in {"done", "panicked"}

\* ------------------------------------------------------------ actions
\* The host calls the command with a destination path; invocations are
\* numbered in the order in which they are called.
Invoke(i) ==
    /\ pc[i] = "idle"
    /\ \A j \in Inv : j < i => pc[j] # "idle"
    /\ \E p \in Paths : file_path' = [file_path EXCEPT ![i] = p]
    /\ pc' = [pc EXCEPT ![i] = Labels[1]]
    /\ UNCHANGED <<fs, fs0, document, page, pdf, offset, wr, events, syscalls, stderr, raced, result>>

\* The host calls the command while no other invocation is in progress.
InvokeSeq(i) ==
    /\ \A j \in Inv : ~Running(j)
    /\ Invoke(i)

\* let mut document = Document::new();
NewDocument(i) ==
    /\ pc[i] = "Document::new"
    /\ document' = [document EXCEPT ![i] = [created |-> TRUE, pages |-> <<>>]]
    /\ events' = [events EXCEPT ![i] = Append(@, "Document::new")]
    /\ pc' = [pc EXCEPT ![i] = After("Document::new")]
    /\ UNCHANGED <<fs, fs0, file_path, page, pdf, offset, wr, syscalls, stderr, raced, result>>

\* let page = document.start_page_with(PageSettings::from_wh(300.0, 600.0).unwrap());
StartPage(i) ==
    /\ pc[i] = "start_page_with"
    /\ LET s == from_wh(PageWidth, PageHeight) IN
         IF UnwrapPanics([ok |-> s.some])
         THEN /\ pc' = [pc EXCEPT ![i] = "panicked"]
              /\ UNCHANGED <<page, events>>
         ELSE /\ page' = [page EXCEPT ![i] = [open |-> TRUE, w |-> s.w, h |-> s.h]]
              /\ events' = [events EXCEPT ![i] = Append(@, "start_page_with")]
              /\ pc' = [pc EXCEPT ![i] = After("start_page_with")]
    /\ UNCHANGED <<fs, fs0, file_path, document, pdf, offset, wr, syscalls, stderr, raced, result>>

\* page.finish();
PageFinish(i) ==
    /\ pc[i] = "Page::finish"
    /\ document' = [document EXCEPT ![i].pages =
                        IF page[i].open THEN Append(@, [w |-> page[i].w, h |-> page[i].h]) ELSE @]
    /\ page' = [page EXCEPT ![i] = NoPage]
    /\ events' = [events EXCEPT ![i] = Append(@, "Page::finish")]
    /\ pc' = [pc EXCEPT ![i] = After("Page::finish")]
    /\ UNCHANGED <<fs, fs0, file_path, pdf, offset, wr, syscalls, stderr, raced, result>>

\* let pdf = document.finish().unwrap();
FinishDocument(i) ==
    /\ pc[i] = "Document::finish"
    /\ LET r == DocumentFinish(document[i]) IN
         /\ events' = [events EXCEPT ![i] = Append(@, "Document::finish")]
         /\ document' = [document EXCEPT ![i] = NoDocument]
         /\ IF UnwrapPanics(r)
            THEN /\ pc' = [pc EXCEPT ![i] = "panicked"]
                 /\ UNCHANGED pdf
            ELSE /\ pdf' = [pdf EXCEPT ![i] = [some |-> TRUE, bytes |-> r.bytes]]
                 /\ pc' = [pc EXCEPT ![i] = After("Document::finish")]
    /\ UNCHANGED <<fs, fs0, file_path, page, offset, wr, syscalls, stderr, raced, result>>

\* std::fs::write(path, &pdf).unwrap();  -- first half: File::create(path)
WriteOpen(i) ==
    /\ pc[i] = "fs::write"
    /\ LET p == Path_new(file_path[i])
           r == OpenResult(fs, p) IN
         /\ fs' = r.fs
         /\ events' = [events EXCEPT ![i] = Append(@, "fs::write")]
         /\ syscalls' = [syscalls EXCEPT ![i] =
                            @ \cup {[op |-> "open", path |-> p, flags |-> "O_WRONLY|O_CREAT|O_TRUNC"]}]
         /\ offset' = [offset EXCEPT ![i] = 0]
         /\ raced' = IF \E j \in Inv : j # i /\ pc[j] = "write_all" /\ Path_new(file_path[j]) = p
                     THEN raced \cup {p} ELSE raced
         /\ IF r.ok
            THEN /\ pc' = [pc EXCEPT ![i] = After("fs::write")]
                 /\ UNCHANGED wr
            ELSE /\ wr' = [wr EXCEPT ![i] = "err"]
                 /\ pc' = [pc EXCEPT ![i] =
                              IF UnwrapPanics(r) THEN "panicked" ELSE After("write_all")]
    /\ UNCHANGED <<fs0, file_path, document, page, pdf, stderr, result>>

\* second half: file.write_all(&pdf), one write(2) call that takes n bytes
WriteChunk(i) ==
    /\ pc[i] = "write_all"
    /\ offset[i] < Len(pdf[i].bytes)
    /\ LET p == Path_new(file_path[i]) IN
       \E n \in 1..(Len(pdf[i].bytes) - offset[i]) :
         /\ fs' = [fs EXCEPT ![p] =
                      File(WriteAt(@.data, offset[i], SubSeq(pdf[i].bytes, offset[i] + 1, offset[i] + n)))]
         /\ syscalls' = [syscalls EXCEPT ![i] =
                            @ \cup {[op |-> "write", path |-> p, flags |-> ""]}]
         /\ offset' = [offset EXCEPT ![i] = @ + n]
    /\ UNCHANGED <<fs0, pc, file_path, document, page, pdf, wr, events, stderr, raced, result>>

\* write_all has taken every byte: the file is closed and fs::write returns Ok(()).
WriteDone(i) ==
    /\ pc[i] = "write_all"
    /\ offset[i] = Len(pdf[i].bytes)
    /\ wr' = [wr EXCEPT ![i] = "ok"]
    /\ pc' = [pc EXCEPT ![i] = After("write_all")]
    /\ UNCHANGED <<fs, fs0, file_path, document, page, pdf, offset, events, syscalls, stderr, raced, result>>

LogLine(p) == <<"Saved PDF to '">> \o Display(p) \o <<"'">>

\* eprintln!("Saved PDF to '{}'", path.display());
Eprintln(i) ==
    /\ pc[i] = "eprintln"
    /\ stderr' = Append(stderr, [inv |-> i, line |-> LogLine(Path_new(file_path[i]))])
    /\ pc' = [pc EXCEPT ![i] = After("eprintln")]
    /\ UNCHANGED <<fs, fs0, file_path, document, page, pdf, offset, wr, events, syscalls, raced, result>>

\* Ok(path.display().to_string())
Return(i) ==
    /\ pc[i] = "return"
    /\ result' = [result EXCEPT ![i] = Ok(Display(Path_new(file_path[i])))]
    /\ pc' = [pc EXCEPT ![i] = After("return")]
    /\ UNCHANGED <<fs, fs0, file_path, document, page, pdf, offset, wr, events, syscalls, stderr, raced>>

Step(i) ==
    \/ NewDocument(i)
    \/ StartPage(i)
    \/ PageFinish(i)
    \/ FinishDocument(i)
    \/ WriteOpen(i)
    \/ WriteChunk(i)
    \/ WriteDone(i)
    \/ Eprintln(i)
    \/ Return(i)

\* Invocations run concurrently on the host's runtime.
Next == \E i \in Inv : Invoke(i) \/ Step(i)

Spec == Init /\ [][Next]_vars

\* Invocations run one after another.
NextSeq == \E i \in Inv : InvokeSeq(i) \/ Step(i)

SpecSeq == Init /\ [][NextSeq]_vars

\* ------------------------------------------------------------ properties
\* The bytes of a document holding one blank 300x600 page.
ExpectedPdf == <<"%PDF", "MediaBox 0 0 300 600", "%%EOF">>

\* The write can succeed: the parent exists and either the file is already
\* there or the parent accepts new entries.
Writable(p) == Parent(p) \in Dirs /\ (fs0[p].exists \/ DirWritable(Parent(p)))

\* The parent directory does not exist or is not writable.
ParentBad(p) == Parent(p) \notin Dirs \/ ~DirWritable(Parent(p))

LinesOf(i) == {k \in 1..Len(stderr) : stderr[k].inv = i}

FullOrder == <<"Document::new", "start_page_with", "Page::finish", "Document::finish", "fs::write">>

IsPrefix(s, t) == Len(s) <= Len(t) /\ SubSeq(t, 1, Len(s)) = s

\* C1: every invocation that has ended returned a Result to its caller, and
\* one whose file write failed returned Err.
C1_EveryInvocationReturns ==
    \A i \in Inv :
        Ended(i) =>
            /\ result[i].tag \in {"Ok", "Err"}
            /\ wr[i] = "err" => result[i].tag = "Err"

\* C2: an invocation whose destination has a missing or unwritable parent
\* directory returns Err, and creates no file at the destination.
C2_BadParentReturnsErr ==
    \A i \in Inv :
        (Ended(i) /\ ParentBad(file_path[i])) =>
            /\ result[i].tag = "Err"
            /\ ~fs0[file_path[i]].exists => ~fs[file_path[i]].exists

\* C3: with invocations run one at a time, an invocation on a writable
\* destination ends by returning Ok(the input path), and at the step that
\* returns, the destination holds exactly the bytes of a one-page 300x600
\* document.
C3_WritableReturnsOkAndFile ==
    /\ [](\A i \in Inv :
            (Ended(i) /\ Writable(file_path[i])) =>
                pc[i] = "done" /\ result[i] = Ok(file_path[i]))
    /\ [][\A i \in Inv :
            (pc[i] = "return" /\ pc'[i] = "done") =>
                /\ result'[i] = Ok(file_path[i])
                /\ fs'[file_path[i]] = File(ExpectedPdf)]_vars

C3_Witness ==
    \E i \in Inv :
        /\ pc[i] = "done"
        /\ fs0[file_path[i]].exists
        /\ fs[file_path[i]] = File(ExpectedPdf)

\* C4: the operations of one request happen in the order create document,
\* open page, finish page, finish document, write file, each at most once,
\* and a request that returned performed each exactly once.
C4_OneOfEachInOrder ==
    \A i \in Inv :
        /\ IsPrefix(events[i], FullOrder)
        /\ pc[i] = "done" => events[i] = FullOrder
        /\ pdf[i].some => Len(pdf[i].bytes) = 3

C4_Witness == \E i \in Inv : pc[i] = "done" /\ events[i] = FullOrder

C6_SecondCallSameAsFirst ==
    (\A j \in Inv : ~Running(j)) =>
        /\ \A i \in Inv :
              pc[i] = "done" =>
                  /\ fs[file_path[i]] = File(ExpectedPdf)
                  /\ result[i] = Ok(file_path[i])
        /\ \A i, j \in Inv :
              (Ended(i) /\ Ended(j) /\ file_path[i] = file_path[j]) =>
                  pc[i] = pc[j] /\ result[i] = result[j]

C6_Witness ==
    /\ \A j \in Inv : ~Running(j)
    /\ \E i, j \in Inv :
          /\ i # j
          /\ pc[i] = "done" /\ pc[j] = "done"
          /\ file_path[i] = file_path[j]
          /\ fs0[file_path[i]].exists

\* C7: once every invocation on a shared destination has completed, the
\* destination holds exactly one complete serialized document, also when
\* their writes overlapped, and every invocation on a writable destination
\* returned Ok.
C7_LastWriterWins ==
    \A p \in Paths :
        (\A j \in Inv : file_path[j] = p => ~Running(j)) =>
            /\ (\E i \in Inv : pc[i] = "done" /\ file_path[i] = p) => fs[p] = File(ExpectedPdf)
            /\ \A i \in Inv :
                  (Ended(i) /\ file_path[i] = p /\ Writable(p)) => result[i].tag = "Ok"

C7_Witness ==
    \E i, j \in Inv :
        /\ i # j
        /\ pc[i] = "done" /\ pc[j] = "done"
        /\ file_path[i] = file_path[j]
        /\ file_path[i] \in raced

\* C8: an invocation whose destination no other invocation uses ends with
\* the result and the file it would have had running alone, whatever the
\* other invocations are doing.
C8_DistinctPathsIndependent ==
    \A i \in Inv :
        (Ended(i) /\ \A j \in Inv : (j # i /\ pc[j] # "idle") => file_path[j] # file_path[i]) =>
            IF Writable(file_path[i])
            THEN /\ pc[i] = "done"
                 /\ result[i] = Ok(file_path[i])
                 /\ fs[file_path[i]] = File(ExpectedPdf)
            ELSE /\ pc[i] = "panicked"
                 /\ result[i] = NoResult
                 /\ fs[file_path[i]] = fs0[file_path[i]]

C8_Witness ==
    /\ Len(stderr) = 2
    /\ stderr[1].inv = 2 /\ stderr[2].inv = 1
    /\ pc[1] = "done" /\ pc[2] = "done"
    /\ file_path[1] # file_path[2]

\* C9: a file differs from its initial state only if it is the destination
\* of an invocation that reached its write; every filesystem call of an
\* invocation names its own destination and none opens a file for reading;
\* no file is deleted.
C9_OnlyDestinationChanges ==
    /\ \A p \in Paths :
          fs[p] # fs0[p] => \E i \in Inv : file_path[i] = p /\ syscalls[i] # {}
    /\ \A p \in Paths : fs0[p].exists => fs[p].exists
    /\ \A i \in Inv : \A c \in syscalls[i] :
          /\ c.path = file_path[i]
          /\ c.op \in {"open", "write"}
          /\ c.op = "open" => c.flags = "O_WRONLY|O_CREAT|O_TRUNC"

C9_Witness ==
    \E i \in Inv :
        /\ pc[i] = "done"
        /\ fs[file_path[i]] # fs0[file_path[i]]
        /\ \E q \in Paths : q # file_path[i] /\ fs0[q].exists /\ fs[q] = fs0[q]

\* C10: every line on standard error was written by an invocation whose
\* file write had returned Ok and names that invocation's path; each
\* invocation writes at most one line; an invocation that returned wrote its
\* line before returning; a failed invocation wrote none.
C10_LogOnlyAfterWrite ==
    /\ \A k \in 1..Len(stderr) :
          /\ wr[stderr[k].inv] = "ok"
          /\ stderr[k].line = <<"Saved PDF to '">> \o file_path[stderr[k].inv] \o <<"'">>
    /\ \A i \in Inv :
          /\ Cardinality(LinesOf(i)) <= 1
          /\ pc[i] \in {"return", "done"} => Cardinality(LinesOf(i)) = 1
          /\ result[i] # NoResult => Cardinality(LinesOf(i)) = 1
          /\ pc[i] = "panicked" => LinesOf(i) = {}

C10_Witness ==
    /\ Len(stderr) = 1
    /\ \E i, j \in Inv :
          /\ pc[i] = "done"
          /\ pc[j] = "panicked" /\ wr[j] = "err"

====
